---- MODULE Spec2Model ----
(***************************************************************************)
(* Model of the local persistence layer of the price calculator           *)
(* (src/utils/storage.ts): the item store, the calculation history, the   *)
(* recent-items list and the schema migration, on top of an AsyncStorage  *)
(* key-value store whose calls can throw.                                  *)
(*                                                                         *)
(* Encoding.  A persisted document is [present, val]: present = FALSE is  *)
(* a key that was never written (getItem returns null), val is the parsed *)
(* JSON array.  An object is a function from its property names to their  *)
(* values; a property the object lacks is not in its DOMAIN.  The JS value *)
(* undefined (only lastUsed ever holds it) is Undefined.  pricePerKg is    *)
(* counted in hundredths (75.50 is 7550).  Date.now().toString() is        *)
(* ToString(now).                                                          *)
(***************************************************************************)
EXTENDS Integers, Sequences, FiniteSets, TLC

\* ------------------------------------------------------------------ bounds
T0 == 100
MaxTime == 1
MaxAdded == 2
MaxCalcs == 2
MaxTouches == 6
MaxRecords == 55
MaxStages == 3
MaxUndos == 3
MaxClock == 4
MaxIssued == 3
MaxDeletes == 2

Times == T0..(T0 + MaxTime)

\* --------------------------------------------------------------- constants
ITEMS_STORAGE_KEY == "items"
CALCULATIONS_STORAGE_KEY == "calculations"
RECENT_ITEMS_KEY == "recent"
MAX_RECENT_ITEMS == 5
HISTORY_KEEP == 49

Undefined == -1
NoArg == "<omitted>"

Absent == [present |-> FALSE, val |-> <<>>]
Doc(v) == [present |-> TRUE, val |-> v]

\* ----------------------------------------------------------- sequence help
Map(s, F(_)) == [i \in 1..Len(s) |-> F(s[i])]
Take(s, k) == SubSeq(s, 1, IF Len(s) < k THEN Len(s) ELSE k)
Range(s) == {s[i] : i \in 1..Len(s)}
Ids(items) == [i \in 1..Len(items) |-> items[i].id]

\* ------------------------------------------------------------ AsyncStorage
\* m is the run of one store operation: the documents, the number of
\* storage calls made so far, the call that throws (0: none) and the calls.
Run(st, f) == [st |-> st, n |-> 0, f |-> f, log |-> <<>>]
Fails(m) == m.n + 1 = m.f
Called(m, call, key, seed) ==
    [m EXCEPT !.n = @ + 1,
              !.log = Append(@, [call |-> call, key |-> key,
                                 threw |-> Fails(m), seed |-> seed])]

getItem(m, key) ==
    [m |-> Called(m, "getItem", key, FALSE), threw |-> Fails(m), val |-> m.st[key]]

setItemTagged(m, key, v, seed) ==
    [m |-> IF Fails(m) THEN Called(m, "setItem", key, seed)
           ELSE [Called(m, "setItem", key, seed) EXCEPT !.st[key] = Doc(v)],
     threw |-> Fails(m)]

setItem(m, key, v) == setItemTagged(m, key, v, FALSE)

removeItem(m, key) ==
    [m |-> IF Fails(m) THEN Called(m, "removeItem", key, FALSE)
           ELSE [Called(m, "removeItem", key, FALSE) EXCEPT !.st[key] = Absent],
     threw |-> Fails(m)]

\* --------------------------------------------------------------- JSON, schema
\* JSON.stringify leaves out a property whose value is undefined.
StringifyItem(item) ==
    IF "lastUsed" \in DOMAIN item /\ item.lastUsed = Undefined
    THEN [k \in DOMAIN item \ {"lastUsed"} |-> item[k]]
    ELSE item
Stringify(items) == Map(items, StringifyItem)

\* Mutant: the favorite flag is reset by every migration.
migrateItem_resetFavorite(item) ==
    [id |-> item.id,
     name |-> item.name,
     pricePerKg |-> item.pricePerKg,
     isFavorite |-> FALSE,
     category |-> IF "category" \in DOMAIN item THEN item.category ELSE "other",
     lastUsed |-> IF "lastUsed" \in DOMAIN item THEN item.lastUsed ELSE Undefined]

migrateItem(item) ==
    [id |-> item.id,
     name |-> item.name,
     pricePerKg |-> item.pricePerKg,
     isFavorite |-> IF "isFavorite" \in DOMAIN item THEN item.isFavorite ELSE FALSE,
     category |-> IF "category" \in DOMAIN item THEN item.category ELSE "other",
     lastUsed |-> IF "lastUsed" \in DOMAIN item THEN item.lastUsed ELSE Undefined]

defaultItems ==
    << [id |-> "1", name |-> "Rice", pricePerKg |-> 7550, isFavorite |-> TRUE, category |-> "groceries"],
       [id |-> "2", name |-> "Wheat Flour", pricePerKg |-> 4580, isFavorite |-> FALSE, category |-> "groceries"],
       [id |-> "3", name |-> "Sugar", pricePerKg |-> 5520, isFavorite |-> TRUE, category |-> "groceries"],
       [id |-> "4", name |-> "Onions", pricePerKg |-> 3500, isFavorite |-> FALSE, category |-> "vegetables"],
       [id |-> "5", name |-> "Tomatoes", pricePerKg |-> 4000, isFavorite |-> FALSE, category |-> "vegetables"],
       [id |-> "6", name |-> "Potatoes", pricePerKg |-> 2500, isFavorite |-> FALSE, category |-> "vegetables"] >>

\* { ...item, ...updates }
Spread(item, updates) ==
    [k \in DOMAIN item \cup DOMAIN updates |->
        IF k \in DOMAIN updates THEN updates[k] ELSE item[k]]

\* ---------------------------------------------------------------- items
\* Every operation returns [m, ret, threw]: threw is an exception that leaves
\* the function.  A function whose body is a try/catch never throws; one
\* without passes on what its callees throw and skips the rest of its body.
Returned(m, ret) == [m |-> m, ret |-> ret, threw |-> FALSE]
Thrown(m) == [m |-> m, ret |-> <<>>, threw |-> TRUE]

saveItemsTagged(m, items, seed) ==
    LET s == setItemTagged(m, ITEMS_STORAGE_KEY, Stringify(items), seed)
    IN Returned(s.m, <<>>)

\* Mutant: the try/catch is lost and a failed write leaves saveItems.
saveItems_uncaught(m, items) ==
    LET s == setItemTagged(m, ITEMS_STORAGE_KEY, Stringify(items), FALSE)
    IN [m |-> s.m, ret |-> <<>>, threw |-> s.threw]

saveItems(m, items) == saveItemsTagged(m, items, FALSE)

\* Mutant: the default catalog is returned but never saved.
getItems_unsaved(m) ==
    LET g == getItem(m, ITEMS_STORAGE_KEY) IN
    IF g.threw THEN Returned(g.m, <<>>)
    ELSE IF g.val.present
         THEN Returned(g.m, Map(g.val.val, migrateItem))
         ELSE Returned(g.m, defaultItems)

\* Mutant: an empty stored array counts as no document and is seeded again.
getItems_reseedEmpty(m) ==
    LET g == getItem(m, ITEMS_STORAGE_KEY) IN
    IF g.threw THEN Returned(g.m, <<>>)
    ELSE IF g.val.present /\ g.val.val # <<>>
         THEN Returned(g.m, Map(g.val.val, migrateItem))
         ELSE LET s == saveItemsTagged(g.m, defaultItems, TRUE)
              IN IF s.threw THEN Returned(s.m, <<>>) ELSE Returned(s.m, defaultItems)

getItems(m) ==
    LET g == getItem(m, ITEMS_STORAGE_KEY) IN
    IF g.threw THEN Returned(g.m, <<>>)
    ELSE IF g.val.present
         THEN Returned(g.m, Map(g.val.val, migrateItem))
         ELSE LET s == saveItemsTagged(g.m, defaultItems, TRUE)
              IN IF s.threw THEN Returned(s.m, <<>>) ELSE Returned(s.m, defaultItems)

addItem(m, name, pricePerKg, category, now) ==
    LET r == getItems(m)
        newItem == [id |-> ToString(now), name |-> name, pricePerKg |-> pricePerKg,
                    isFavorite |-> FALSE,
                    category |-> IF category = NoArg THEN "other" ELSE category]
        s == saveItems(r.m, Append(r.ret, newItem))
    IN IF r.threw THEN Thrown(r.m)
       ELSE IF s.threw THEN Thrown(s.m) ELSE Returned(s.m, newItem)

\* Mutant: the id test is lost and the updates are merged into every item.
updateItem_all(m, id, updates) ==
    LET r == getItems(m)
        updatedItems == [i \in 1..Len(r.ret) |-> Spread(r.ret[i], updates)]
    IN IF r.threw THEN Returned(r.m, <<>>)
       ELSE Returned(saveItems(r.m, updatedItems).m, <<>>)

updateItem(m, id, updates) ==
    LET r == getItems(m)
        updatedItems == [i \in 1..Len(r.ret) |->
                           IF r.ret[i].id = id THEN Spread(r.ret[i], updates) ELSE r.ret[i]]
    IN IF r.threw THEN Returned(r.m, <<>>)
       ELSE Returned(saveItems(r.m, updatedItems).m, <<>>)

\* Mutant: the id is taken out of the recent-items document too.
deleteItem_purgeRecent(m, id) ==
    LET r == getItems(m)
        filteredItems == SelectSeq(r.ret, LAMBDA item : item.id # id)
        s == saveItems(r.m, filteredItems)
        recent == SelectSeq(s.m.st[RECENT_ITEMS_KEY].val, LAMBDA other : other # id)
    IN IF r.threw THEN Returned(r.m, <<>>)
       ELSE Returned(setItem(s.m, RECENT_ITEMS_KEY, recent).m, <<>>)

deleteItem(m, id) ==
    LET r == getItems(m)
        filteredItems == SelectSeq(r.ret, LAMBDA item : item.id # id)
    IN IF r.threw THEN Returned(r.m, <<>>)
       ELSE Returned(saveItems(r.m, filteredItems).m, <<>>)

\* Mutant: the `if (item)` guard is lost; reading isFavorite of undefined throws.
toggleFavorite_noGuard(m, id) ==
    LET r == getItems(m)
        found == SelectSeq(r.ret, LAMBDA i : i.id = id)
        u == updateItem(r.m, id, [isFavorite |-> ~found[1].isFavorite])
    IN IF r.threw THEN Thrown(r.m)
       ELSE IF found = <<>> THEN Thrown(r.m)
       ELSE IF u.threw THEN Thrown(u.m) ELSE Returned(u.m, <<>>)

\* Mutant: the item is marked favorite whatever it was.
toggleFavorite_setTrue(m, id) ==
    LET r == getItems(m)
        found == SelectSeq(r.ret, LAMBDA i : i.id = id)
        u == updateItem(r.m, id, [isFavorite |-> TRUE])
    IN IF r.threw THEN Thrown(r.m)
       ELSE IF found = <<>> THEN Returned(r.m, <<>>)
       ELSE IF u.threw THEN Thrown(u.m) ELSE Returned(u.m, <<>>)

toggleFavorite(m, id) ==
    LET r == getItems(m)
        found == SelectSeq(r.ret, LAMBDA i : i.id = id)
        u == updateItem(r.m, id, [isFavorite |-> ~found[1].isFavorite])
    IN IF r.threw THEN Thrown(r.m)
       ELSE IF found = <<>> THEN Returned(r.m, <<>>)
       ELSE IF u.threw THEN Thrown(u.m) ELSE Returned(u.m, <<>>)

\* ----------------------------------------------------------- calculations
getCalculations(m) ==
    LET g == getItem(m, CALCULATIONS_STORAGE_KEY) IN
    IF g.threw THEN Returned(g.m, <<>>)
    ELSE Returned(g.m, IF g.val.present THEN g.val.val ELSE <<>>)

\* The two Date.now() reads of one call are taken in the same millisecond.
\* Mutant: the whole previous list is kept when it holds 50 entries.
saveCalculation_keepAll(m, calculation, now) ==
    LET r == getCalculations(m)
        newCalculation == Spread(calculation, [id |-> ToString(now), timestamp |-> now])
        updated == <<newCalculation>> \o Take(r.ret, HISTORY_KEEP + 1)
    IN IF r.threw THEN Returned(r.m, <<>>)
       ELSE Returned(setItem(r.m, CALCULATIONS_STORAGE_KEY, updated).m, <<>>)

saveCalculation(m, calculation, now) ==
    LET r == getCalculations(m)
        newCalculation == Spread(calculation, [id |-> ToString(now), timestamp |-> now])
        updated == <<newCalculation>> \o Take(r.ret, HISTORY_KEEP)
    IN IF r.threw THEN Returned(r.m, <<>>)
       ELSE Returned(setItem(r.m, CALCULATIONS_STORAGE_KEY, updated).m, <<>>)

\* Mutant: the document is emptied, not removed.
clearCalculations_emptied(m) ==
    Returned(setItem(m, CALCULATIONS_STORAGE_KEY, <<>>).m, <<>>)

clearCalculations(m) ==
    Returned(removeItem(m, CALCULATIONS_STORAGE_KEY).m, <<>>)

\* ----------------------------------------------------------- recent items
getRecentItems(m) ==
    LET g == getItem(m, RECENT_ITEMS_KEY) IN
    IF g.threw THEN Returned(g.m, <<>>)
    ELSE Returned(g.m, IF g.val.present THEN g.val.val ELSE <<>>)

\* Mutant: the id is put in front without removing its earlier entry.
addRecentItem_unfiltered(m, itemId, now) ==
    LET r == getRecentItems(m)
        updated == Take(<<itemId>> \o r.ret, MAX_RECENT_ITEMS)
        s == setItem(r.m, RECENT_ITEMS_KEY, updated)
        u == updateItem(s.m, itemId, [lastUsed |-> now])
    IN IF r.threw THEN Returned(r.m, <<>>)
       ELSE IF s.threw THEN Returned(s.m, <<>>)
       ELSE Returned(u.m, <<>>)

\* Mutant: the id list is saved but the item's lastUsed is not stamped.
addRecentItem_noStamp(m, itemId, now) ==
    LET r == getRecentItems(m)
        filtered == SelectSeq(r.ret, LAMBDA id : id # itemId)
        updated == Take(<<itemId>> \o filtered, MAX_RECENT_ITEMS)
        s == setItem(r.m, RECENT_ITEMS_KEY, updated)
    IN IF r.threw THEN Returned(r.m, <<>>)
       ELSE Returned(s.m, <<>>)

addRecentItem(m, itemId, now) ==
    LET r == getRecentItems(m)
        filtered == SelectSeq(r.ret, LAMBDA id : id # itemId)
        updated == Take(<<itemId>> \o filtered, MAX_RECENT_ITEMS)
        s == setItem(r.m, RECENT_ITEMS_KEY, updated)
        u == updateItem(s.m, itemId, [lastUsed |-> now])
    IN IF r.threw THEN Returned(r.m, <<>>)
       ELSE IF s.threw THEN Returned(s.m, <<>>)
       ELSE Returned(u.m, <<>>)

\* Mutant: the items are filtered by the id list, in collection order.
getRecentItemsWithData_storeOrder(m) ==
    LET r == getRecentItems(m)
        a == getItems(r.m)
    IN IF r.threw THEN Thrown(r.m)
       ELSE IF a.threw THEN Thrown(a.m)
       ELSE Returned(a.m, SelectSeq(a.ret, LAMBDA item : item.id \in Range(r.ret)))

getRecentItemsWithData(m) ==
    LET r == getRecentItems(m)
        a == getItems(r.m)
        Known(id) == \E i \in 1..Len(a.ret) : a.ret[i].id = id
        Find(id) == a.ret[CHOOSE i \in 1..Len(a.ret) :
                            /\ a.ret[i].id = id
                            /\ \A j \in 1..(i - 1) : a.ret[j].id # id]
        kept == SelectSeq(r.ret, Known)
    IN IF r.threw THEN Thrown(r.m)
       ELSE IF a.threw THEN Thrown(a.m)
       ELSE Returned(a.m, [i \in 1..Len(kept) |-> Find(kept[i])])

\* ------------------------------------------------------------------ state
VARIABLES
    store,      \* the three persisted documents
    now,        \* what Date.now() returns
    last,       \* the store operation that ran last: its arguments and outcome
    touches,    \* the ids passed to addRecentItem so far, oldest first
    recorded,   \* how many calculations were recorded so far
    undoItem,   \* useUndo: the undoItem state, <<>> for null
    seen,       \* useUndo: the undoItem of the last render, which undo closes over
    timeoutRef, \* useUndo: timeoutRef.current, 0 for null
    timers,     \* the setTimeout callbacks that are scheduled
    staged,     \* how many entries were passed to setForUndo so far
    mounted,    \* useUndo: the component that owns the hook is mounted
    screen,     \* the items screen: its items state, the items of its last render,
                \* and how far its delete and undo handlers are
    flight,     \* the store operations in flight, one per caller
    raced,      \* what was issued so far, and whether any of it overlapped
    tally       \* when each entry was staged, and the entries undo returned, onRestore
                \* and onExpire were called for, and the pending entries that
                \* clearUndo and undo set to null, in order

undoVars == <<undoItem, seen, timeoutRef, timers, staged, mounted, tally>>
flightVars == <<flight, raced>>
vars == <<store, now, last, touches, recorded, undoVars, flightVars, screen>>

\* The callers that can have a store operation in flight.
Procs == {1, 2}

\* A caller with no operation in flight.
Idle == [op |-> "none", id |-> "", pc |-> "idle", items |-> <<>>, recent |-> <<>>, ret |-> <<>>]

\* The items screen before it loaded anything: snap and before are the item
\* passed to performDelete last and the collection as it was then, restored is
\* the entry whose restoration was saved since.
NoScreen ==
    [items |-> <<>>, shown |-> <<>>, deleting |-> <<>>, saving |-> <<>>,
     snap |-> <<>>, before |-> <<>>, restored |-> 0]

\* Nothing was issued yet.
NoRace == [issued |-> 0, overlapped |-> FALSE, changes |-> {}, seeded |-> {}]

\* Nothing was returned, restored or expired yet.
NoTally ==
    [stagedAt |-> <<>>, returned |-> <<>>, restored |-> <<>>, expired |-> <<>>,
     cleared |-> <<>>, undone |-> <<>>]

NoOp == [op |-> "none", id |-> "", fault |-> 0, threw |-> FALSE, ret |-> <<>>, log |-> <<>>]

Init ==
    /\ store = [items |-> Absent, calculations |-> Absent, recent |-> Absent]
    /\ now = T0
    /\ last = NoOp
    /\ touches = <<>>
    /\ recorded = 0
    /\ undoItem = <<>>
    /\ seen = <<>>
    /\ timeoutRef = 0
    /\ timers = {}
    /\ staged = 0
    /\ mounted = TRUE
    /\ flight = [p \in Procs |-> Idle]
    /\ raced = NoRace
    /\ screen = NoScreen
    /\ tally = NoTally

\* What getItems returns for a store, without touching it.
ItemsOf(st) ==
    IF st.items.present THEN Map(st.items.val, migrateItem) ELSE defaultItems

\* The same list as JSON: a property holding undefined is a property left out.
Listed(st) == Stringify(ItemsOf(st))

\* One awaited store operation: f is the storage call that throws (0: none),
\* and it is one of the calls the operation makes.
Ran(op, id, f, res) ==
    /\ f = 0 \/ f <= res.m.n
    /\ store' = res.m.st
    /\ last' = [op |-> op, id |-> id, fault |-> f, threw |-> res.threw,
                ret |-> res.ret, log |-> res.m.log]
    /\ UNCHANGED now

GetItems(f) ==
    /\ Ran("getItems", "", f, getItems(Run(store, f)))
    /\ UNCHANGED <<touches, recorded, undoVars, flightVars, screen>>

AddItem(name, pricePerKg, category, f) ==
    /\ Cardinality({i \in 1..Len(ItemsOf(store)) :
                       ItemsOf(store)[i].id \notin Range(Ids(defaultItems))}) < MaxAdded
    /\ Ran("addItem", "", f, addItem(Run(store, f), name, pricePerKg, category, now))
    /\ UNCHANGED <<touches, recorded, undoVars, flightVars, screen>>

UpdateItem(id, updates, f) ==
    /\ Ran("updateItem", id, f, updateItem(Run(store, f), id, updates))
    /\ UNCHANGED <<touches, recorded, undoVars, flightVars, screen>>

DeleteItem(id, f) ==
    /\ Ran("deleteItem", id, f, deleteItem(Run(store, f), id))
    /\ UNCHANGED <<touches, recorded, undoVars, flightVars, screen>>

ToggleFavorite(id, f) ==
    /\ Ran("toggleFavorite", id, f, toggleFavorite(Run(store, f), id))
    /\ UNCHANGED <<touches, recorded, undoVars, flightVars, screen>>

GetCalculations(f) ==
    /\ Ran("getCalculations", "", f, getCalculations(Run(store, f)))
    /\ UNCHANGED <<touches, recorded, undoVars, flightVars, screen>>

SaveCalculation(calculation, f) ==
    /\ Len(store.calculations.val) < MaxCalcs
    /\ Ran("saveCalculation", "", f, saveCalculation(Run(store, f), calculation, now))
    /\ UNCHANGED <<touches, recorded, undoVars, flightVars, screen>>

SomeCalculation ==
    [itemId |-> "1", itemName |-> "Rice", mode |-> "price",
     input |-> 2, result |-> 151, perKgPrice |-> 7550]

\* saveCalculation of the next calculation of a numbered series: its input is
\* its number in the series.
RecordNext ==
    /\ recorded < MaxRecords
    /\ Ran("saveCalculation", "", 0,
           saveCalculation(Run(store, 0), [SomeCalculation EXCEPT !.input = recorded + 1], now))
    /\ recorded' = recorded + 1
    /\ UNCHANGED <<touches, undoVars, flightVars, screen>>

ClearCalculations(f) ==
    /\ Ran("clearCalculations", "", f, clearCalculations(Run(store, f)))
    /\ UNCHANGED <<touches, recorded, undoVars, flightVars, screen>>

GetRecentItems(f) ==
    /\ Ran("getRecentItems", "", f, getRecentItems(Run(store, f)))
    /\ UNCHANGED <<touches, recorded, undoVars, flightVars, screen>>

AddRecentItem(itemId, f) ==
    /\ Ran("addRecentItem", itemId, f, addRecentItem(Run(store, f), itemId, now))
    /\ UNCHANGED <<touches, recorded, undoVars, flightVars, screen>>

\* addRecentItem, with the id added to the history of touches.
TrackedTouch(itemId) ==
    /\ Len(touches) < MaxTouches
    /\ Ran("addRecentItem", itemId, 0, addRecentItem(Run(store, 0), itemId, now))
    /\ touches' = Append(touches, itemId)
    /\ UNCHANGED <<recorded, undoVars, flightVars, screen>>

GetRecentItemsWithData(f) ==
    /\ Ran("getRecentItemsWithData", "", f, getRecentItemsWithData(Run(store, f)))
    /\ UNCHANGED <<touches, recorded, undoVars, flightVars, screen>>

Tick ==
    /\ now' \in Times \ {now}
    /\ UNCHANGED <<store, last, touches, recorded, undoVars, flightVars, screen>>

MissingId == "99"

\* ------------------------------------------- store operations, await by await
InFlight(p) == flight[p].pc \notin {"idle", "done"}

Mutations == {"addItem", "updateItem", "deleteItem"}

\* A store that holds what a caller has read so far.
Snapshot(c) ==
    [items |-> Doc(Stringify(c.items)), calculations |-> Absent, recent |-> Doc(c.recent)]

\* What the rest of an operation does with the items its getItems returned.
Applied(c, t) ==
    CASE c.op = "addItem" -> addItem(Run(Snapshot(c), 0), "Salt", 2000, "spices", t)
      [] c.op = "updateItem" -> updateItem(Run(Snapshot(c), 0), c.id, [pricePerKg |-> 8000])
      [] c.op = "deleteItem" -> deleteItem(Run(Snapshot(c), 0), c.id)
      [] c.op = "getRecentItemsWithData" -> getRecentItemsWithData(Run(Snapshot(c), 0))
      [] OTHER -> Returned(Run(Snapshot(c), 0), c.items)

\* The operation goes on after its getItems returned items.
Got(c, items, t) ==
    LET d == [c EXCEPT !.items = items]
    IN IF c.op \in Mutations THEN [d EXCEPT !.pc = "save"]
       ELSE [d EXCEPT !.pc = "done", !.ret = Applied(d, t).ret]

\* A caller calls a store operation and does not await it.
Issue(p, op, id) ==
    /\ ~InFlight(p)
    /\ raced.issued < MaxIssued
    /\ flight' = [flight EXCEPT ![p] =
                    [Idle EXCEPT !.op = op, !.id = id,
                                 !.pc = IF op = "getRecentItemsWithData"
                                        THEN "getRecent" ELSE "getItem"]]
    /\ raced' = [raced EXCEPT !.issued = @ + 1,
                              !.overlapped = @ \/ \E q \in Procs \ {p} : InFlight(q)]
    /\ UNCHANGED <<store, now, last, touches, recorded, undoVars, screen>>

\* getRecentItems: await AsyncStorage.getItem(RECENT_ITEMS_KEY).
StepGetRecent(p) ==
    /\ flight[p].pc = "getRecent"
    /\ flight' = [flight EXCEPT ![p].recent = getRecentItems(Run(store, 0)).ret,
                                ![p].pc = "getItem"]
    /\ UNCHANGED <<store, now, last, touches, recorded, undoVars, raced, screen>>

\* getItems: await AsyncStorage.getItem(ITEMS_STORAGE_KEY).
StepGetItem(p) ==
    /\ flight[p].pc = "getItem"
    /\ flight' = [flight EXCEPT ![p] =
                    IF store.items.present
                    THEN Got(@, Map(store.items.val, migrateItem), now)
                    ELSE [@ EXCEPT !.pc = "seed"]]
    /\ UNCHANGED <<store, now, last, touches, recorded, undoVars, raced, screen>>

\* Mutant: the defaults are added to the document that is there by now.
StepSeed_append(p) ==
    /\ flight[p].pc = "seed"
    /\ store' = [store EXCEPT !.items = Doc(store.items.val \o defaultItems)]
    /\ flight' = [flight EXCEPT ![p] = Got(@, defaultItems, now)]
    /\ raced' = [raced EXCEPT !.seeded = @ \cup {p}]
    /\ UNCHANGED <<now, last, touches, recorded, undoVars, screen>>

\* getItems on a null document: await saveItems(defaultItems).
StepSeed(p) ==
    /\ flight[p].pc = "seed"
    /\ store' = [store EXCEPT !.items = Doc(defaultItems)]
    /\ flight' = [flight EXCEPT ![p] = Got(@, defaultItems, now)]
    /\ raced' = [raced EXCEPT !.seeded = @ \cup {p}]
    /\ UNCHANGED <<now, last, touches, recorded, undoVars, screen>>

\* Mutant: the change is applied to the document that is there by now.
StepSave_fresh(p) ==
    /\ flight[p].pc = "save"
    /\ LET res == Applied([flight[p] EXCEPT !.items = ItemsOf(store)], now)
       IN /\ store' = [store EXCEPT !.items = res.m.st.items]
          /\ flight' = [flight EXCEPT ![p].pc = "done", ![p].ret = res.ret]
    /\ raced' = [raced EXCEPT !.changes = @ \cup {flight[p].op}]
    /\ UNCHANGED <<now, last, touches, recorded, undoVars, screen>>

\* addItem, updateItem, deleteItem: await saveItems of the changed copy of the
\* items that were read.
StepSave(p) ==
    /\ flight[p].pc = "save"
    /\ LET res == Applied(flight[p], now)
       IN /\ store' = [store EXCEPT !.items = res.m.st.items]
          /\ flight' = [flight EXCEPT ![p].pc = "done", ![p].ret = res.ret]
    /\ raced' = [raced EXCEPT !.changes = @ \cup {flight[p].op}]
    /\ UNCHANGED <<now, last, touches, recorded, undoVars, screen>>

NextRace ==
    \E p \in Procs :
        \/ Issue(p, "addItem", "")
        \/ Issue(p, "updateItem", "1")
        \/ Issue(p, "deleteItem", "2")
        \/ Issue(p, "getItems", "")
        \/ StepGetItem(p)
        \/ StepSeed(p)
        \/ StepSave(p)

SpecRace == Init /\ [][NextRace]_vars

\* ------------------------------ the reads of a screen that loads, await by await
InitFirstReads ==
    /\ \E recent \in {Absent, Doc(<<"2", MissingId, "1">>)} :
          store = [items |-> Absent, calculations |-> Absent, recent |-> recent]
    /\ now = T0
    /\ last = NoOp
    /\ touches = <<>>
    /\ recorded = 0
    /\ undoItem = <<>>
    /\ seen = <<>>
    /\ timeoutRef = 0
    /\ timers = {}
    /\ staged = 0
    /\ mounted = TRUE
    /\ flight = [p \in Procs |-> Idle]
    /\ raced = NoRace
    /\ screen = NoScreen
    /\ tally = NoTally

NextFirstReads ==
    \E p \in Procs :
        \/ Issue(p, "getItems", "")
        \/ Issue(p, "getRecentItemsWithData", "")
        \/ StepGetRecent(p)
        \/ StepGetItem(p)
        \/ StepSeed(p)

SpecFirstReads == InitFirstReads /\ [][NextFirstReads]_vars

\* --------------------------------------------------------- the undo hook
\* The auto-clear timeout, in ticks of the clock.
timeout == 2

\* clearTimeout(timeoutRef.current), when timeoutRef.current is set.
Cleared == {t \in timers : t.id # timeoutRef}

\* setForUndo(data): the entries staged are numbered, data is the number.
setForUndo ==
    /\ mounted
    /\ staged < MaxStages
    /\ now + timeout <= T0 + MaxClock
    /\ staged' = staged + 1
    /\ undoItem' = <<[data |-> staged + 1, action |-> "deleted", timestamp |-> now]>>
    /\ timers' = Cleared \cup {[id |-> staged + 1, due |-> now + timeout]}
    /\ timeoutRef' = staged + 1
    /\ tally' = [tally EXCEPT !.stagedAt = Append(@, now)]
    /\ last' = [NoOp EXCEPT !.op = "setForUndo"]
    /\ UNCHANGED <<seen, mounted>>

\* undo(): the callback of the last render, which reads that render's undoItem.
undo ==
    /\ mounted
    /\ IF seen = <<>>
       THEN /\ last' = [NoOp EXCEPT !.op = "undo"]
            /\ UNCHANGED undoVars
       ELSE /\ Len(tally.returned) < MaxUndos
            /\ timers' = Cleared
            /\ timeoutRef' = 0
            /\ undoItem' = <<>>
            /\ tally' = [tally EXCEPT !.returned = Append(@, seen[1].data),
                                      !.restored = Append(@, seen[1].data),
                                      !.undone = @ \o Map(undoItem, LAMBDA u : u.data)]
            /\ last' = [NoOp EXCEPT !.op = "undo", !.ret = <<seen[1].data>>]
            /\ UNCHANGED <<seen, staged, mounted>>

\* Mutant: the previous timer is left scheduled.
SetForUndo_stacked ==
    /\ mounted
    /\ staged < MaxStages
    /\ now + timeout <= T0 + MaxClock
    /\ staged' = staged + 1
    /\ undoItem' = <<[data |-> staged + 1, action |-> "deleted", timestamp |-> now]>>
    /\ timers' = timers \cup {[id |-> staged + 1, due |-> now + timeout]}
    /\ timeoutRef' = staged + 1
    /\ tally' = [tally EXCEPT !.stagedAt = Append(@, now)]
    /\ last' = [NoOp EXCEPT !.op = "setForUndo"]
    /\ UNCHANGED <<store, now, touches, recorded, seen, mounted, flightVars, screen>>

\* setForUndo(data) in the component that owns the hook.
SetForUndo ==
    /\ setForUndo
    /\ UNCHANGED <<store, now, touches, recorded, flightVars, screen>>

\* Mutant: the timer is left scheduled.
Undo_keepTimer ==
    /\ mounted
    /\ IF seen = <<>>
       THEN /\ last' = [NoOp EXCEPT !.op = "undo"]
            /\ UNCHANGED <<store, now, touches, recorded, undoVars, flightVars, screen>>
       ELSE /\ Len(tally.returned) < MaxUndos
            /\ timeoutRef' = 0
            /\ undoItem' = <<>>
            /\ tally' = [tally EXCEPT !.returned = Append(@, seen[1].data),
                                      !.restored = Append(@, seen[1].data),
                                      !.undone = @ \o Map(undoItem, LAMBDA u : u.data)]
            /\ last' = [NoOp EXCEPT !.op = "undo", !.ret = <<seen[1].data>>]
            /\ UNCHANGED <<store, now, touches, recorded, seen, timers, staged, mounted, flightVars, screen>>

\* undo() in the component that owns the hook.
Undo ==
    /\ undo
    /\ UNCHANGED <<store, now, touches, recorded, flightVars, screen>>

ClearUndo ==
    /\ mounted
    /\ timers' = Cleared
    /\ timeoutRef' = 0
    /\ undoItem' = <<>>
    /\ tally' = IF undoItem = <<>> THEN tally
                ELSE [tally EXCEPT !.cleared = Append(@, undoItem[1].data)]
    /\ last' = [NoOp EXCEPT !.op = "clearUndo"]
    /\ UNCHANGED <<store, now, touches, recorded, seen, staged, mounted, flightVars, screen>>

\* The callback setForUndo scheduled runs: it leaves timeoutRef as it is.
Expire ==
    \E t \in timers :
        /\ t.due <= now
        /\ timers' = timers \ {t}
        /\ undoItem' = <<>>
        /\ tally' = [tally EXCEPT !.expired = Append(@, t.id)]
        /\ last' = [NoOp EXCEPT !.op = "expire", !.ret = <<t.id>>]
        /\ UNCHANGED <<store, now, touches, recorded, seen, timeoutRef, staged, mounted, flightVars, screen>>

\* getRemainingTime() at time t, of the callback that closes over item.
getRemainingTime(item, t) ==
    IF item = <<>> THEN 0
    ELSE LET elapsed == t - item[1].timestamp
         IN IF timeout - elapsed > 0 THEN timeout - elapsed ELSE 0

GetRemainingTime ==
    /\ mounted
    /\ last' = [NoOp EXCEPT !.op = "getRemainingTime", !.ret = <<getRemainingTime(seen, now)>>]
    /\ UNCHANGED <<store, now, touches, recorded, undoVars, flightVars, screen>>

\* Mutant: the cleanup leaves the timer scheduled.
Unmount_leak ==
    /\ mounted
    /\ mounted' = FALSE
    /\ last' = [NoOp EXCEPT !.op = "unmount"]
    /\ UNCHANGED <<store, now, touches, recorded, undoItem, seen, timeoutRef, timers, staged, tally, flightVars, screen>>

\* The cleanup of the hook's effect, run when the component unmounts.
Unmount ==
    /\ mounted
    /\ mounted' = FALSE
    /\ timers' = Cleared
    /\ last' = [NoOp EXCEPT !.op = "unmount"]
    /\ UNCHANGED <<store, now, touches, recorded, undoItem, seen, timeoutRef, staged, tally, flightVars, screen>>

\* The component renders again after a state update: the callbacks it hands
\* out from now on close over the current undoItem.
Render ==
    /\ mounted
    /\ seen # undoItem
    /\ seen' = undoItem
    /\ UNCHANGED <<store, now, last, touches, recorded, undoItem, timeoutRef, timers, staged, tally, mounted, flightVars, screen>>

\* The clock advances; a callback that is due runs before it advances again.
Advance ==
    /\ now < T0 + MaxClock
    /\ \A t \in timers : t.due > now
    /\ now' = now + 1
    /\ UNCHANGED <<store, last, touches, recorded, undoVars, flightVars, screen>>

NextUndo ==
    \/ SetForUndo
    \/ Undo
    \/ ClearUndo
    \/ Expire
    \/ Render
    \/ Advance

SpecUndo == Init /\ [][NextUndo]_vars

\* Timers run, the clock advances and a state update is followed by a render.
SpecUndoFair ==
    SpecUndo /\ WF_vars(Expire) /\ WF_vars(Render) /\ WF_vars(Advance)

\* ----------------------------------- the undo hook in a component that unmounts
NextTeardown ==
    \/ NextUndo
    \/ Unmount

SpecTeardown == Init /\ [][NextTeardown]_vars

\* ------------------------------------------ the items screen: delete and undo
\* loadItems: setItems(await getItems()).
LoadItems ==
    /\ LET r == getItems(Run(store, 0))
       IN /\ store' = r.m.st
          /\ screen' = [screen EXCEPT !.items = r.ret]
    /\ UNCHANGED <<now, last, touches, recorded, undoVars, flightVars>>

\* performDelete(item) up to its await, for the i-th item of the list shown:
\* the item goes to setForUndo and deleteItem is called.
PerformDelete(i) ==
    /\ screen.deleting = <<>>
    /\ staged < MaxDeletes
    /\ i \in 1..Len(screen.shown)
    /\ screen.shown[i].id \in {"1", "2"}
    /\ setForUndo
    /\ screen' = [screen EXCEPT !.deleting = <<screen.shown[i].id>>,
                                !.snap = Append(@, screen.shown[i]),
                                !.before = Listed(store),
                                !.restored = 0]
    /\ UNCHANGED <<store, now, touches, recorded, flightVars>>

\* performDelete after its await: deleteItem has run, the item is filtered out
\* of the items state.
DeleteDone ==
    /\ screen.deleting # <<>>
    /\ store' = deleteItem(Run(store, 0), screen.deleting[1]).m.st
    /\ screen' = [screen EXCEPT !.deleting = <<>>,
                                !.items = SelectSeq(@, LAMBDA item : item.id # screen.deleting[1])]
    /\ UNCHANGED <<now, last, touches, recorded, undoVars, flightVars>>

\* handleUndo up to its await: undo(), and the items of the render it belongs
\* to with the restored item appended go to saveItems.
HandleUndo ==
    /\ screen.saving = <<>>
    /\ undo
    /\ screen' = IF last'.ret = <<>> THEN screen
                 ELSE [screen EXCEPT !.saving =
                          <<[data |-> last'.ret[1],
                             items |-> Append(screen.shown, screen.snap[last'.ret[1]])]>>]
    /\ UNCHANGED <<store, now, touches, recorded, flightVars>>

\* handleUndo after its await: saveItems has run, setItems(updatedItems).
UndoSaved ==
    /\ screen.saving # <<>>
    /\ store' = saveItems(Run(store, 0), screen.saving[1].items).m.st
    /\ screen' = [screen EXCEPT !.saving = <<>>,
                                !.items = screen.saving[1].items,
                                !.restored = screen.saving[1].data]
    /\ UNCHANGED <<now, last, touches, recorded, undoVars, flightVars>>

\* The screen renders again: its handlers close over the current items and
\* the hook's callbacks over the current undoItem.
ScreenRender ==
    /\ mounted
    /\ seen # undoItem \/ screen.shown # screen.items
    /\ seen' = undoItem
    /\ screen' = [screen EXCEPT !.shown = screen.items]
    /\ UNCHANGED <<store, now, last, touches, recorded, undoItem, timeoutRef, timers,
                   staged, tally, mounted, flightVars>>

NextScreen ==
    \/ LoadItems
    \/ \E i \in 1..2 : PerformDelete(i)
    \/ DeleteDone
    \/ HandleUndo
    \/ UndoSaved
    \/ ScreenRender
    \/ Expire
    \/ Advance

SpecScreen == Init /\ [][NextScreen]_vars

\* ------------------------- the undo hook under a clock that can be set back
NextRemaining ==
    \/ SetForUndo
    \/ ClearUndo
    \/ Render
    \/ GetRemainingTime
    \/ Tick

SpecRemaining == Init /\ [][NextRemaining]_vars

\* ------------------------------------------------- the item store, no faults
UpdateSet == { [pricePerKg |-> 8000], [id |-> "9"] }

Next ==
    \/ GetItems(0)
    \/ AddItem("Salt", 2000, "spices", 0)
    \/ \E id \in {"1", MissingId}, u \in UpdateSet : UpdateItem(id, u, 0)
    \/ \E id \in {"1", "2", MissingId} : DeleteItem(id, 0)
    \/ \E id \in {"1", MissingId} : ToggleFavorite(id, 0)
    \/ Tick

Spec == Init /\ [][Next]_vars

\* ------------------------- the item store down to an empty document, no faults
NextDrain ==
    \/ GetItems(0)
    \/ AddItem("Salt", 2000, NoArg, 0)
    \/ UpdateItem("1", [pricePerKg |-> 8000], 0)
    \/ \E id \in Range(Ids(defaultItems)) : DeleteItem(id, 0)
    \/ ToggleFavorite("1", 0)

SpecDrain == Init /\ [][NextDrain]_vars

\* ------------------------------------- recent items and deletion, no faults
NextRecent ==
    \/ \E id \in {"1", "2", MissingId} : AddRecentItem(id, 0)
    \/ \E id \in {"1", "2"} : DeleteItem(id, 0)
    \/ GetRecentItems(0)
    \/ GetRecentItemsWithData(0)
    \/ Tick

SpecRecent == Init /\ [][NextRecent]_vars

\* ------------------------------------------ touches from an empty recency list
NextTouch == \E id \in Range(Ids(defaultItems)) : TrackedTouch(id)

SpecTouch == Init /\ [][NextTouch]_vars

\* ------------------------------------------- every operation, one call throws
\* An operation makes at most 5 storage calls (addRecentItem on a new store).
FaultPoints == 0..5
NextFault ==
    \E f \in FaultPoints :
        \/ GetItems(f)
        \/ AddItem("Salt", 2000, NoArg, f)
        \/ UpdateItem("1", [pricePerKg |-> 8000], f)
        \/ DeleteItem("1", f)
        \/ ToggleFavorite("1", f)
        \/ GetCalculations(f)
        \/ SaveCalculation(SomeCalculation, f)
        \/ ClearCalculations(f)
        \/ GetRecentItems(f)
        \/ AddRecentItem("1", f)
        \/ GetRecentItemsWithData(f)

SpecFault == Init /\ [][NextFault]_vars

\* ------------------------------------------------------------ properties
Distinct(s) == \A i, j \in 1..Len(s) : i # j => s[i] # s[j]
Seeds(log) == \E i \in 1..Len(log) : log[i].seed
Writes(log) == \E i \in 1..Len(log) : log[i].call # "getItem"
Has(items, id) == id \in Range(Ids(items))

\* C1: list() on a store with no items document returns the 6 default items
\* and persists exactly that catalog; the list() that follows returns exactly
\* the 6 persisted items, none twice, and writes nothing (no second seeding).
C1_FirstReadSeeds ==
    [][(last'.op = "getItems" /\ GetItems(0)) =>
        /\ ~store.items.present =>
              /\ last'.ret = defaultItems
              /\ Len(last'.ret) = 6
              /\ store'.items = Doc(defaultItems)
        /\ (last.op = "getItems" /\ Seeds(last.log)) =>
              /\ store' = store
              /\ ~Writes(last'.log)
              /\ Len(last'.ret) = 6
              /\ Distinct(Ids(last'.ret))
              /\ Stringify(last'.ret) = store.items.val
              /\ Stringify(last'.ret) = Stringify(last.ret)]_vars

C1_Witness ==
    /\ last.op = "getItems"
    /\ ~Writes(last.log)
    /\ store.items = Doc(defaultItems)
    /\ Stringify(last.ret) = defaultItems

\* C2: once an items document exists, even an empty array, no operation
\* seeds the default catalog again: list() of an empty document returns the
\* empty list and leaves the store as it is.
C2_NoReseed ==
    [][(store.items.present /\ <<store, last>>' # <<store, last>>) =>
        /\ ~Seeds(last'.log)
        /\ (store.items.val = <<>> /\ last'.op = "getItems" /\ GetItems(0)) =>
              (last'.ret = <<>> /\ store' = store)
        /\ store'.items.present]_vars

C2_Witness ==
    /\ store.items = Doc(<<>>)
    /\ last.op = "getItems"
    /\ last.ret = <<>>

\* C6: update(id, partialFields) on an existing id changes only the given
\* fields of the matching item: its other fields, every other item and the
\* order of the collection are the same in the list() that follows.
C6_UpdateFrame ==
    [][\A u \in UpdateSet :
        (/\ last'.op = "updateItem"
         /\ Has(Listed(store), last'.id)
         /\ UpdateItem(last'.id, u, 0)) =>
            LET id == last'.id
                before == Listed(store)
                after == Listed(store')
            IN /\ Len(after) = Len(before)
               /\ \A i \in 1..Len(before) :
                    IF before[i].id = id
                    THEN /\ \A k \in DOMAIN u : after[i][k] = u[k]
                         /\ \A k \in DOMAIN before[i] \ DOMAIN u : after[i][k] = before[i][k]
                    ELSE after[i] = before[i]]_vars

C6_Witness ==
    /\ last.op = "updateItem"
    /\ last.id = "1"
    /\ Len(Listed(store)) > 1
    /\ Listed(store)[1] = [defaultItems[1] EXCEPT !.pricePerKg = 8000]
    /\ Listed(store)[2] = defaultItems[2]

\* C7: update, delete and toggleFavorite with an id that matches no item
\* complete without error and leave the content of the collection unchanged.
C7_NotFoundIgnored ==
    [][(/\ last'.op \in {"updateItem", "deleteItem", "toggleFavorite"}
        /\ ~Has(Listed(store), last'.id)
        /\ \/ \E u \in UpdateSet : UpdateItem(last'.id, u, 0)
           \/ DeleteItem(last'.id, 0)
           \/ ToggleFavorite(last'.id, 0)) =>
            /\ ~last'.threw
            /\ Listed(store') = Listed(store)]_vars

C7_Witness ==
    /\ last.op = "toggleFavorite"
    /\ last.id = MissingId
    /\ ~last.threw
    /\ store.items = Doc(defaultItems)

\* C8: add assigns a fresh unique id: after an add, also one issued while
\* the clock returns the same value as for an earlier add, all items of the
\* collection have pairwise distinct ids, and the created item is the last
\* of the collection and is the value returned.
C8_AddUniqueId ==
    last.op = "addItem" =>
        /\ Distinct(Ids(Listed(store)))
        /\ Listed(store) # <<>>
        /\ Listed(store)[Len(Listed(store))] = StringifyItem(last.ret)

\* C9: the id of an item is immutable: no update, toggleFavorite or touch,
\* whatever partial fields update is given, changes the id of an item.
C9_IdImmutable ==
    [][(last'.op \in {"updateItem", "toggleFavorite", "addRecentItem"}
        /\ <<store, last>>' # <<store, last>>) =>
            Ids(Listed(store')) = Ids(Listed(store))]_vars

\* C3: after delete(id) of an item whose id is in the persisted recency
\* list, the persisted recency list no longer contains that id.
C3_DeleteLeavesRecency ==
    [][(/\ last'.op = "deleteItem"
        /\ last'.id \in Range(store.recent.val)
        /\ Has(Listed(store), last'.id)
        /\ DeleteItem(last'.id, 0)) =>
            last'.id \notin Range(store'.recent.val)]_vars

\* C4: the worst outcome of a storage failure is the loss of the write in
\* flight: whichever single storage call throws during add, update, delete,
\* toggleFavorite, touch or record, every item persisted before (but the one
\* a delete removes) and every calculation persisted before is persisted after.
C4_FailureLosesOnlyTheWrite ==
    [][(/\ <<store, last>>' # <<store, last>>
        /\ last'.fault # 0
        /\ last'.op \in {"addItem", "updateItem", "deleteItem", "toggleFavorite",
                         "addRecentItem", "saveCalculation"}) =>
            /\ \A id \in Range(Ids(store.items.val)) :
                  \/ last'.op = "deleteItem" /\ id = last'.id
                  \/ id \in Range(Ids(store'.items.val))
            /\ Range(Take(store.calculations.val, HISTORY_KEEP))
                  \subseteq Range(store'.calculations.val)]_vars

\* The storage call that threw in the operation that ran last.
Failed(l) == l.log[l.fault]
IsWrite(c) == c.call \in {"setItem", "removeItem"}
Contents(st, key) == IF key = ITEMS_STORAGE_KEY THEN Listed(st) ELSE st[key].val

\* C5 as stated: no operation passes a storage failure on to its caller; a
\* list() whose getItem throws returns the empty list; when setItem or
\* removeItem throws, the persisted document is left unchanged.
C5_FailureIsNoOp ==
    [][(<<store, last>>' # <<store, last>> /\ last'.fault # 0) =>
        /\ ~last'.threw
        /\ (last'.op \in {"getItems", "getCalculations", "getRecentItems"}
            /\ Failed(last').call = "getItem") => last'.ret = <<>>
        /\ IsWrite(Failed(last')) =>
              store'[Failed(last').key] = store[Failed(last').key]]_vars

\* C5 amended: no operation passes a storage failure on to its caller; a
\* list() whose getItem throws returns the empty list; when setItem or
\* removeItem throws, the document it was writing is left unchanged if the
\* operation did not seed the default catalog, and lists the same contents
\* as before if the call that threw was the operation's last storage call.
C5_FailureIsNoOpUnlessSeeding ==
    [][(<<store, last>>' # <<store, last>> /\ last'.fault # 0) =>
        /\ ~last'.threw
        /\ (last'.op \in {"getItems", "getCalculations", "getRecentItems"}
            /\ Failed(last').call = "getItem") => last'.ret = <<>>
        /\ (IsWrite(Failed(last')) /\ ~Seeds(last'.log)) =>
              store'[Failed(last').key] = store[Failed(last').key]
        /\ (IsWrite(Failed(last')) /\ last'.fault = Len(last'.log)) =>
              Contents(store', Failed(last').key) = Contents(store, Failed(last').key)]_vars

C5_Witness ==
    /\ last.op = "addItem"
    /\ last.fault = Len(last.log)
    /\ IsWrite(Failed(last))
    /\ ~Seeds(last.log)
    /\ ~last.threw
    /\ Len(store.items.val) = 6

\* C10: after any sequence of touches from an empty recency list, the
\* persisted list is the distinct touched ids, most recently touched first,
\* cut to 5: no duplicate, at most 5 entries, a touched id that is present
\* moves to the front, and a 6th distinct id evicts the least recently touched.
LastTouch(id) == CHOOSE i \in 1..Len(touches) :
                    touches[i] = id /\ \A j \in (i + 1)..Len(touches) : touches[j] # id
C10_RecencyIsMru ==
    LET r == store.recent.val
        touched == Range(touches)
    IN /\ Distinct(r)
       /\ Len(r) <= 5
       /\ Range(r) \subseteq touched
       /\ Len(r) = IF Cardinality(touched) < 5 THEN Cardinality(touched) ELSE 5
       /\ \A i, j \in 1..Len(r) : i < j => LastTouch(r[i]) > LastTouch(r[j])
       /\ \A id \in touched \ Range(r) : \A i \in 1..Len(r) : LastTouch(id) < LastTouch(r[i])
       /\ touches # <<>> => r[1] = touches[Len(touches)]

C10_Witness ==
    /\ Len(touches) = 6
    /\ Cardinality(Range(touches)) = 6
    /\ Len(store.recent.val) = 5
    /\ touches[1] \notin Range(store.recent.val)
    /\ store.recent.val[1] = touches[6]

\* ------------------------------------------ a numbered series of calculations
NextHistory ==
    \/ RecordNext
    \/ GetCalculations(0)

SpecHistory == Init /\ [][NextHistory]_vars

\* --------------------------------- a stored record of any shape, read and saved
Category ==
    {"groceries", "vegetables", "fruits", "dairy", "meat", "spices", "beverages", "other"}

\* Records as JSON.parse gives them: the three fields of the first schema, and
\* any of the later fields, the category not always one the type allows.
RawRecords ==
    LET full == [id : {"1"}, name : {"Rice"}, pricePerKg : {7550},
                 isFavorite : BOOLEAN, category : Category \cup {"bogus"},
                 lastUsed : {0, T0}]
    IN { [k \in {"id", "name", "pricePerKg"} \cup later |-> r[k]] :
            later \in SUBSET {"isFavorite", "category", "lastUsed"}, r \in full }

InitLegacy ==
    /\ \E r \in RawRecords :
          store = [items |-> Doc(<<r>>), calculations |-> Absent, recent |-> Absent]
    /\ now = T0
    /\ last = NoOp
    /\ touches = <<>>
    /\ recorded = 0
    /\ undoItem = <<>>
    /\ seen = <<>>
    /\ timeoutRef = 0
    /\ timers = {}
    /\ staged = 0
    /\ mounted = TRUE
    /\ flight = [p \in Procs |-> Idle]
    /\ raced = NoRace
    /\ screen = NoScreen
    /\ tally = NoTally

NextLegacy ==
    \/ GetItems(0)
    \/ ToggleFavorite("1", 0)
    \/ UpdateItem("1", [pricePerKg |-> 8000], 0)

SpecLegacy == InitLegacy /\ [][NextLegacy]_vars

\* C11: resolve() never fails on stale ids: it returns, in recency order,
\* exactly the items whose id is in the recency list and still is in the item
\* collection, so an item deleted after it was touched is left out.
C11_ResolveDropsStale ==
    [][(last'.op = "getRecentItemsWithData" /\ GetRecentItemsWithData(0)) =>
        /\ ~last'.threw
        /\ Ids(last'.ret) = SelectSeq(store.recent.val, LAMBDA id : Has(Listed(store), id))
        /\ \A i \in 1..Len(last'.ret) :
              StringifyItem(last'.ret[i]) \in Range(Listed(store))]_vars

C11_Witness ==
    /\ last.op = "getRecentItemsWithData"
    /\ ~last.threw
    /\ store.recent.val = <<"2", "1">>
    /\ ~Has(Listed(store), "2")
    /\ Ids(last.ret) = <<"1">>

\* C12: touch(itemId) of an existing item has both effects in one call: the
\* id is first in the persisted recency list and the item's lastUsed is the
\* current time; its other fields and every other item are unchanged.
C12_TouchStampsItem ==
    [][(/\ last'.op = "addRecentItem"
        /\ Has(Listed(store), last'.id)
        /\ AddRecentItem(last'.id, 0)) =>
            LET id == last'.id
                before == Listed(store)
                after == Listed(store')
            IN /\ store'.recent.val # <<>>
               /\ store'.recent.val[1] = id
               /\ Len(after) = Len(before)
               /\ \A i \in 1..Len(before) :
                    IF before[i].id = id
                    THEN /\ "lastUsed" \in DOMAIN after[i]
                         /\ after[i].lastUsed = now
                         /\ \A k \in DOMAIN before[i] \ {"lastUsed"} :
                               after[i][k] = before[i][k]
                         /\ DOMAIN after[i] = DOMAIN before[i] \cup {"lastUsed"}
                    ELSE after[i] = before[i]]_vars

C12_Witness ==
    /\ last.op = "addRecentItem"
    /\ last.id = "2"
    /\ store.recent.val = <<"2", "1">>
    /\ Listed(store)[2] = Spread(defaultItems[2], [lastUsed |-> now])
    /\ Listed(store)[3] = defaultItems[3]

\* C13: after any number n of record operations the persisted calculation
\* list holds the min(n, 50) most recent calculations, newest first; the 51st
\* record evicts exactly the oldest one.
C13_HistoryCap ==
    LET c == store.calculations.val
    IN /\ Len(c) = (IF recorded < 50 THEN recorded ELSE 50)
       /\ \A i \in 1..Len(c) : c[i].input = recorded - i + 1
       /\ last.op = "getCalculations" => last.ret = c

C13_Witness ==
    /\ recorded = 51
    /\ last.op = "saveCalculation"
    /\ Len(store.calculations.val) = 50
    /\ store.calculations.val[1].input = 51
    /\ store.calculations.val[50].input = 2

\* C14: clear() of the calculation history, when storage does not fail,
\* completes without error and leaves no calculations key at all, whether or
\* not there was one; a list() that follows returns the empty list.
C14_ClearRemovesKey ==
    [][/\ (last'.op = "clearCalculations" /\ last'.fault = 0) =>
            /\ ~last'.threw
            /\ store'.calculations = Absent
            /\ store'.items = store.items
            /\ store'.recent = store.recent
       /\ (/\ last.op = "clearCalculations" /\ last.fault = 0
           /\ last'.op = "getCalculations" /\ last'.fault = 0) =>
            /\ ~last'.threw
            /\ last'.ret = <<>>]_vars

C14_Witness ==
    /\ last.op = "clearCalculations"
    /\ last.fault = 0
    /\ ~last.threw
    /\ last.log # <<>>
    /\ store.calculations = Absent
    /\ store.items.present

\* The fields of the current item shape, lastUsed being optional.
CurrentShape(r) ==
    /\ {"id", "name", "pricePerKg", "isFavorite", "category"} \subseteq DOMAIN r
    /\ r.category \in Category

\* C15: migration is idempotent: migrating a stored record twice gives what
\* migrating it once gives, a list that was read migrates to itself, and a
\* record of the current shape migrates to a record equal to it.
C15_MigrateIdempotent ==
    /\ \A i \in 1..Len(store.items.val) :
          LET r == store.items.val[i]
          IN /\ migrateItem(migrateItem(r)) = migrateItem(r)
             /\ CurrentShape(r) => StringifyItem(migrateItem(r)) = r
    /\ (last.op = "getItems" /\ ~last.threw) =>
          /\ Map(last.ret, migrateItem) = last.ret
          /\ Stringify(Map(Stringify(last.ret), migrateItem)) = Stringify(last.ret)

C15_Witness ==
    /\ last.op = "getItems"
    /\ Len(last.ret) = 1
    /\ CurrentShape(store.items.val[1])
    /\ store.items.val[1].isFavorite
    /\ "lastUsed" \notin DOMAIN store.items.val[1]
    /\ StringifyItem(last.ret[1]) = store.items.val[1]

\* C16: every read of the item collection fills the defaults: a record
\* without isFavorite is returned with isFavorite false, a record whose
\* category is missing or not one of the 8 categories with category "other",
\* a record without lastUsed with lastUsed undefined, not 0.
C16_MigrationDefaults ==
    (last.op = "getItems" /\ ~last.threw /\ store.items.present) =>
        /\ Len(last.ret) = Len(store.items.val)
        /\ \A i \in 1..Len(last.ret) :
              LET r == store.items.val[i]
                  item == last.ret[i]
              IN /\ "isFavorite" \notin DOMAIN r => item.isFavorite = FALSE
                 /\ ("category" \notin DOMAIN r \/ r.category \notin Category) =>
                        item.category = "other"
                 /\ "lastUsed" \notin DOMAIN r => item.lastUsed = Undefined

Tallied(s, x) == Cardinality({i \in 1..Len(s) : s[i] = x})

\* C18: an entry x that is staged and then neither restored, cleared nor
\* replaced expires: eventually undoItem is null and onExpire was called for x,
\* exactly once; x is discarded, undo() never returns it afterwards.
C18_ExpiryDiscards ==
    /\ \A x \in 1..MaxStages :
          (undoItem # <<>> /\ undoItem[1].data = x) ~>
              \/ undoItem = <<>> /\ Tallied(tally.expired, x) = 1
              \/ x \in Range(tally.undone)
              \/ x \in Range(tally.cleared)
              \/ staged > x
    /\ [](\A x \in 1..MaxStages : Tallied(tally.expired, x) <= 1)
    /\ [][tally'.returned # tally.returned =>
            tally'.returned[Len(tally'.returned)] \notin Range(tally.expired)]_vars

\* C19: once y is staged over a pending x the hook holds only y, undo()
\* returns y, and no operation returns x any more: whatever undo returns is the
\* entry that was staged last.
C19_OverwriteKeepsLatest ==
    /\ [](undoItem # <<>> => undoItem[1].data = staged)
    /\ [][tally'.returned # tally.returned =>
            /\ tally'.returned = Append(tally.returned, staged)
            /\ last'.ret = <<staged>>]_vars

\* C20: only one countdown is ever scheduled, the one of the pending entry,
\* due a full timeout after that entry was staged; onExpire is called only for
\* the entry staged last, no earlier than its own deadline, and at most once
\* per entry.
C20_OneCountdown ==
    /\ [](/\ Cardinality(timers) <= 1
          /\ \A t \in timers :
                /\ undoItem # <<>>
                /\ t.id = staged
                /\ t.id = undoItem[1].data
                /\ t.id = timeoutRef
                /\ t.due = tally.stagedAt[staged] + timeout
          /\ \A x \in 1..MaxStages : Tallied(tally.expired, x) <= 1)
    /\ [][tally'.expired # tally.expired =>
            /\ tally'.expired = Append(tally.expired, staged)
            /\ now >= tally.stagedAt[staged] + timeout]_vars

C20_Witness ==
    /\ last.op = "expire"
    /\ staged = 2
    /\ tally.stagedAt = <<T0, T0 + 1>>
    /\ tally.expired = <<2>>
    /\ tally.returned = <<>>
    /\ tally.cleared = <<>>
    /\ now = T0 + 1 + timeout
    /\ timers = {}

\* C21: clearUndo() while an entry is pending cancels the countdown and leaves
\* undoItem null without calling onRestore or onExpire, and neither is called
\* for the dismissed entry later.
C21_ClearIsSilent ==
    /\ [][(ClearUndo /\ undoItem # <<>>) =>
            /\ undoItem' = <<>>
            /\ timers' = {}
            /\ timeoutRef' = 0
            /\ tally'.restored = tally.restored
            /\ tally'.expired = tally.expired]_vars
    /\ [][\A x \in Range(tally.cleared) :
            /\ Tallied(tally'.restored, x) = Tallied(tally.restored, x)
            /\ Tallied(tally'.expired, x) = Tallied(tally.expired, x)]_vars

\* C22: undo() while undoItem is null, initially or after a restore, an expiry
\* or a clear, returns nothing, calls no onRestore and leaves undoItem null.
C22_UndoOnEmpty ==
    [][(Undo /\ undoItem = <<>>) =>
          /\ last'.ret = <<>>
          /\ tally'.restored = tally.restored
          /\ tally'.returned = tally.returned
          /\ undoItem' = <<>>]_vars

\* C23: remainingTime() is always in [0, timeout]: it is timeout minus the
\* time since the entry of the render it was handed out by was staged, clipped
\* to that interval, whatever the clock returns, and 0 when there is no entry.
C23_RemainingInRange ==
    [][GetRemainingTime =>
          LET r == last'.ret[1]
              left == timeout - (now - seen[1].timestamp)
          IN /\ r \in 0..timeout
             /\ seen = <<>> => r = 0
             /\ seen # <<>> =>
                   r = (IF left < 0 THEN 0 ELSE IF left > timeout THEN timeout ELSE left)]_vars

\* C24: toggleFavorite(id) of an item of the collection (one item has that
\* id) flips its isFavorite and changes no other field and no other item;
\* toggling the same id twice gives the collection back.
C24_ToggleFlipsOnly ==
    /\ [][(/\ last'.op = "toggleFavorite"
           /\ Tallied(Ids(Listed(store)), last'.id) = 1
           /\ ToggleFavorite(last'.id, 0)) =>
              LET before == Listed(store)
                  after == Listed(store')
              IN /\ ~last'.threw
                 /\ Len(after) = Len(before)
                 /\ \A i \in 1..Len(before) :
                       IF before[i].id = last'.id
                       THEN after[i] = [before[i] EXCEPT !.isFavorite = ~@]
                       ELSE after[i] = before[i]]_vars
    /\ [](\A id \in Range(Ids(Listed(store))) :
            Tallied(Ids(Listed(store)), id) = 1 =>
                LET once == toggleFavorite(Run(store, 0), id).m.st
                    twice == toggleFavorite(Run(once, 0), id).m.st
                IN /\ Listed(once) # Listed(store)
                   /\ Listed(twice) = Listed(store))

C24_Witness ==
    /\ last.op = "toggleFavorite"
    /\ last.id = "1"
    /\ ~last.threw
    /\ Len(Listed(store)) = 6
    /\ Listed(store)[1] = [defaultItems[1] EXCEPT !.isFavorite = FALSE, !.pricePerKg = 8000]
    /\ Listed(store)[2] = defaultItems[2]

\* C25: unmounting cancels the countdown: once the component that owns the
\* hook is unmounted no timer is scheduled, so the expiry callback never runs:
\* neither the state nor the tally of onExpire calls changes any more.
C25_TeardownCancels ==
    /\ [](~mounted => timers = {})
    /\ [][~mounted' => (undoItem' = undoItem /\ tally'.expired = tally.expired)]_vars

C25_Witness ==
    /\ ~mounted
    /\ undoItem # <<>>
    /\ now > undoItem[1].timestamp + timeout
    /\ tally.expired = <<>>
    /\ timers = {}

\* C28: each staged entry ends in one way only: for an entry x, onRestore and
\* onExpire together are called at most once and undo() returns x at most
\* once, also when the expiry callback or an undo() has run since the last
\* render.
C28_EndsOnce ==
    \A x \in 1..MaxStages :
        /\ Tallied(tally.restored, x) + Tallied(tally.expired, x) <= 1
        /\ Tallied(tally.returned, x) <= 1

\* The keys of the documents the storage calls of a log wrote or removed.
Written(log) == {log[i].key : i \in {j \in 1..Len(log) : IsWrite(log[j]) /\ ~log[j].threw}}

Quiescent == \A p \in Procs : ~InFlight(p)

\* The change of a mutation shows in a list of items.
Present(op, items) ==
    CASE op = "addItem" -> \E i \in 1..Len(items) : items[i].name = "Salt"
      [] op = "updateItem" ->
            /\ Has(items, "1")
            /\ \A i \in 1..Len(items) : items[i].id = "1" => items[i].pricePerKg = 8000
      [] op = "deleteItem" -> ~Has(items, "2")
      [] OTHER -> TRUE

\* C26: item-store mutations are read-modify-write over the whole document:
\* the write of a mutation persists its change applied to the items that
\* mutation read, whatever was written since, so of two mutations in flight at
\* once the one that writes last decides the document; when no operation is
\* issued while another is in flight, the change of every mutation is there.
C26_LastWriteWins ==
    /\ [][\A p \in Procs :
            (flight[p].pc = "save" /\ flight'[p].pc = "done") =>
                LET read == Stringify(flight[p].items)
                    after == Listed(store')
                IN CASE flight[p].op = "addItem" ->
                            /\ Len(after) = Len(read) + 1
                            /\ SubSeq(after, 1, Len(read)) = read
                            /\ after[Len(after)].name = "Salt"
                     [] flight[p].op = "updateItem" ->
                            /\ Len(after) = Len(read)
                            /\ \A i \in 1..Len(read) :
                                  after[i] = IF read[i].id = "1"
                                             THEN [read[i] EXCEPT !.pricePerKg = 8000]
                                             ELSE read[i]
                     [] flight[p].op = "deleteItem" ->
                            after = SelectSeq(read, LAMBDA item : item.id # "2")]_vars
    /\ []((Quiescent /\ ~raced.overlapped) =>
            \A op \in raced.changes : Present(op, Listed(store)))

\* Both mutations completed, the update last: the delete is lost.
C26_Witness ==
    /\ Quiescent
    /\ raced.overlapped
    /\ raced.changes = {"deleteItem", "updateItem"}
    /\ Present("updateItem", Listed(store))
    /\ ~Present("deleteItem", Listed(store))
    /\ Len(Listed(store)) = 6

\* C27: seeding is safe under concurrent first reads: when list() and
\* resolve() run at once on a store with no items document each gets the 6
\* defaults from getItems, and the items document is never anything but the 6
\* defaults: not there yet, or exactly them.
C27_ConcurrentSeeding ==
    /\ store.items \in {Absent, Doc(defaultItems)}
    /\ \A p \in Procs :
          flight[p].pc = "done" =>
              /\ Stringify(flight[p].items) = defaultItems
              /\ store.items = Doc(defaultItems)
              /\ flight[p].op = "getItems" => Stringify(flight[p].ret) = defaultItems
              /\ flight[p].op = "getRecentItemsWithData" =>
                    Stringify(flight[p].ret) =
                        [i \in 1..Len(SelectSeq(flight[p].recent, LAMBDA id : id # MissingId)) |->
                            defaultItems[CHOOSE k \in 1..6 :
                                ToString(k) = SelectSeq(flight[p].recent,
                                                        LAMBDA id : id # MissingId)[i]]]

C27_Witness ==
    /\ flight[1].op = "getItems"
    /\ flight[2].op = "getRecentItemsWithData"
    /\ Quiescent
    /\ raced.issued = 2
    /\ raced.overlapped
    /\ raced.seeded = {1, 2}
    /\ store.items = Doc(defaultItems)
    /\ Ids(flight[2].ret) = <<"2", "1">>

\* C29: delete then undo on the items screen restores the item: once
\* performDelete(item) and the handleUndo that restored it are over, the
\* items document holds the item once, equal to what was deleted, and the other
\* items as they were before the delete.
C29_DeleteUndoRestores ==
    (/\ screen.deleting = <<>>
     /\ screen.saving = <<>>
     /\ staged > 0
     /\ screen.restored = staged) =>
        LET item == StringifyItem(screen.snap[staged])
            items == Listed(store)
        IN /\ Tallied(items, item) = 1
           /\ Tallied(Ids(items), item.id) = 1
           /\ Len(items) = Len(screen.before)
           /\ Range(items) = Range(screen.before)

====
